---- MODULE Spec2Model ----
(***************************************************************************)
(* Model of validate-certificates.py: the OpenCTI certificate validator.   *)
(*                                                                         *)
(* The program is one sequential process: main() checks the SSL directory, *)
(* then runs validate_certificate_files, check_certificate_validity,       *)
(* test_ssl_connectivity and generate_report, and exits.  Its environment  *)
(* is the disk (which asset files exist), the external verifier (what the  *)
(* two openssl commands answer for each service), the network (how the     *)
(* TLS probe of each service ends) and the wall clock.  The environment is *)
(* chosen in Init and held fixed; the tool is run twice in succession, the *)
(* clock possibly moving on between the two runs.                          *)
(***************************************************************************)
EXTENDS Integers, Sequences, FiniteSets, TLC

VARIABLES
    rootExists,            \* the SSL directory exists
    disk,                  \* the set of asset files that exist
    verifier,              \* service -> what openssl answers for its certificate
    network,               \* service -> how a TLS probe of its port ends
    now,                   \* the day datetime.now() falls on
    run,                   \* 1 for the first invocation of the tool, 2 for the second
    pc,                    \* main()'s position
    file_results,          \* main()'s file_results
    validity_results,      \* main()'s validity_results
    connectivity_results,  \* main()'s connectivity_results
    conn_log,              \* service -> which connectivity line was printed
    report,                \* what generate_report printed
    exitCode,              \* the status given to sys.exit
    calls,                 \* the validator methods main() has called, in order
    statted,               \* the asset paths exists() was called on
    verifyCalls,           \* service -> number of 'openssl verify' invocations
    enddateCalls,          \* service -> number of 'openssl x509 -enddate' invocations
    probes,                \* service -> number of connection attempts
    prev                   \* summary and exit status of the previous invocation

vars == <<rootExists, disk, verifier, network, now, run, pc, file_results,
          validity_results, connectivity_results, conn_log, report, exitCode,
          calls, statted, verifyCalls, enddateCalls, probes, prev>>

env == <<rootExists, disk, verifier, network>>

(***************************************************************************)
(* Bounds of the model.                                                    *)
(***************************************************************************)

\* At most this many things are wrong with the environment at once: a missing
\* file, a verifier answer other than "verified, expires on day 200", a probe
\* that does not succeed.
MaxDeviations == 2

\* The days (counted from the first run) on which a certificate may expire.
ExpirySamples == {10, 30, 90, 200}

\* By how many days the clock may have moved on when the tool is run again.
ClockSkews == {0, 1}

(***************************************************************************)
(* CertificateValidator.__init__: the fixed service table.                 *)
(***************************************************************************)

\* self.services, in insertion order (the order every loop visits it in).
ServiceOrder == <<"redis", "elasticsearch", "minio", "rabbitmq", "opencti">>

ServicePorts ==
    [s \in {"redis", "elasticsearch", "minio", "rabbitmq", "opencti"} |->
        CASE s = "redis" -> 6380
          [] s = "elasticsearch" -> 9200
          [] s = "minio" -> 9000
          [] s = "rabbitmq" -> 5671
          [] s = "opencti" -> 8080]

Services == DOMAIN ServicePorts

(***************************************************************************)
(* Asset paths below ssl_dir: <<directory, file>>.                         *)
(***************************************************************************)

CaCert == <<"ca", "ca.crt">>
CaKey == <<"ca", "ca.key">>
CertFile(service) == <<service, "service.crt">>
KeyFile(service) == <<service, "service.key">>
CaFile(service) == <<service, "ca.crt">>

AssetFiles ==
    {CaCert, CaKey} \cup
    UNION {{CertFile(s), KeyFile(s), CaFile(s)} : s \in Services}

(***************************************************************************)
(* The external verifier.  subprocess.run either raises (the process could *)
(* not be spawned) or returns a return code and the captured output.  The  *)
(* -enddate output is modelled by its '='-separated fields; a date text is *)
(* the day it names, or text strptime cannot parse.                        *)
(***************************************************************************)

DateText(d) == [parseable |-> TRUE, day |-> d]
BadDateText == [parseable |-> FALSE, day |-> 0]

VerifyOk == [raised |-> FALSE, returncode |-> 0, stderr |-> ""]
VerifyRejected == [raised |-> FALSE, returncode |-> 2, stderr |-> "verification failed"]
SpawnError == [raised |-> TRUE, returncode |-> 0, stderr |-> ""]

EnddateOk(d) == [raised |-> FALSE, returncode |-> 0, stdout |-> <<"notAfter", DateText(d)>>]
EnddateFailed == [raised |-> FALSE, returncode |-> 1, stdout |-> <<>>]
EnddateNoEquals == [raised |-> FALSE, returncode |-> 0, stdout |-> <<"garbage">>]
EnddateBadDate == [raised |-> FALSE, returncode |-> 0, stdout |-> <<"notAfter", BadDateText>>]
EnddateSpawnError == [raised |-> TRUE, returncode |-> 0, stdout |-> <<>>]

NominalVerifier == [verify |-> VerifyOk, enddate |-> EnddateOk(200)]

VerifierOutcomes ==
    {[verify |-> VerifyRejected, enddate |-> EnddateOk(200)],
     [verify |-> SpawnError, enddate |-> EnddateOk(200)]} \cup
    {[verify |-> VerifyOk, enddate |-> e] :
        e \in {EnddateOk(d) : d \in ExpirySamples} \cup
              {EnddateFailed, EnddateNoEquals, EnddateBadDate, EnddateSpawnError}}

\* How a probe ends: the handshake succeeds, socket.timeout,
\* ConnectionRefusedError, or any other exception.
NetworkOutcomes == {"ok", "timeout", "refused", "other"}

(***************************************************************************)
(* The environments Init draws from: the nominal one (every file present,  *)
(* every certificate verified, every port answering) with at most          *)
(* MaxDeviations deviations.                                               *)
(***************************************************************************)

RECURSIVE SubsetsUpTo(_, _)
SubsetsUpTo(S, k) ==
    IF k <= 0 THEN {{}}
    ELSE LET smaller == SubsetsUpTo(S, k - 1)
         IN  smaller \cup {T \cup {x} : T \in smaller, x \in S}

\* The functions on Services that differ from `nominal` on at most k services.
Perturbations(outcomes, nominal, k) ==
    UNION {{[s \in Services |-> IF s \in P THEN g[s] ELSE nominal] :
                g \in [P -> outcomes \ {nominal}]} :
           P \in SubsetsUpTo(Services, k)}

MissingFileChoices == SubsetsUpTo(AssetFiles, MaxDeviations)
VerifierChoices(k) == Perturbations(VerifierOutcomes, NominalVerifier, k)
NetworkChoices(k) == Perturbations(NetworkOutcomes, "ok", k)

NumDeviating(f, nominal) == Cardinality({s \in Services : f[s] # nominal})

(***************************************************************************)
(* Python's dict.get(key, default).                                        *)
(***************************************************************************)

Get(d, key, default) == IF key \in DOMAIN d THEN d[key] ELSE default

\* The state of a process that has just been started: nothing is assigned,
\* nothing has been called, no status has been given to sys.exit (-1).
Fresh ==
    [pc |-> "start", results |-> <<>>, report |-> <<>>, exitCode |-> -1,
     calls |-> <<>>, statted |-> {}, counts |-> [s \in Services |-> 0]]

(***************************************************************************)
(* validate_certificate_files                                              *)
(***************************************************************************)

\* A slip in the CA test: either file is enough.
CaPresentEither(d) == CaCert \in d \/ CaKey \in d

\* ca_cert.exists() and ca_key.exists()
CaPresent(d) == CaCert \in d /\ CaKey \in d

\* cert_file.exists() and key_file.exists() and ca_file.exists()
ServicePresent(d, service) ==
    CertFile(service) \in d /\ KeyFile(service) \in d /\ CaFile(service) \in d

FileResults(d) ==
    [k \in {"ca"} \cup Services |->
        IF k = "ca" THEN CaPresent(d) ELSE ServicePresent(d, k)]

\* The paths the two conditions stat: 'and' stops at the first missing file.
FileCheckStats(d) ==
    {CaCert} \cup (IF CaCert \in d THEN {CaKey} ELSE {}) \cup
    UNION {{CertFile(s)} \cup
           (IF CertFile(s) \in d THEN {KeyFile(s)} ELSE {}) \cup
           (IF CertFile(s) \in d /\ KeyFile(s) \in d THEN {CaFile(s)} ELSE {})
           : s \in Services}

(***************************************************************************)
(* check_certificate_validity                                              *)
(***************************************************************************)

\* exp_result.stdout.strip().split('=')[1], then datetime.strptime: an
\* IndexError without a second field, a ValueError on text that is no date.
ParseEnddate(stdout) ==
    IF Len(stdout) < 2
    THEN [raised |-> TRUE, error |-> "list index out of range", text |-> BadDateText]
    ELSE IF ~stdout[2].parseable
    THEN [raised |-> TRUE, error |-> "time data does not match format", text |-> stdout[2]]
    ELSE [raised |-> FALSE, error |-> "", text |-> stdout[2]]

\* (exp_date - datetime.datetime.now()).days
DaysLeft(text, today) == text.day - today

\* The try block of one iteration: the entry stored in results, the verifier
\* invocations made, and whether the except clause was taken.
VerifyCertificate(v, today) ==
    IF v.verify.raised
    THEN [entry |-> [valid |-> FALSE, reason |-> "spawn failed"],
          verify |-> 1, enddate |-> 0, raised |-> TRUE]
    ELSE IF v.verify.returncode # 0
    THEN [entry |-> [valid |-> FALSE, reason |-> v.verify.stderr],
          verify |-> 1, enddate |-> 0, raised |-> FALSE]
    ELSE IF v.enddate.raised
    THEN [entry |-> [valid |-> FALSE, reason |-> "spawn failed"],
          verify |-> 1, enddate |-> 1, raised |-> TRUE]
    ELSE IF v.enddate.returncode # 0
    THEN [entry |-> [valid |-> TRUE, expires |-> "Unknown"],
          verify |-> 1, enddate |-> 1, raised |-> FALSE]
    ELSE LET parsed == ParseEnddate(v.enddate.stdout)
         IN  IF parsed.raised
             THEN [entry |-> [valid |-> FALSE, reason |-> parsed.error],
                   verify |-> 1, enddate |-> 1, raised |-> TRUE]
             ELSE [entry |-> [valid |-> TRUE, expires |-> parsed.text,
                              days_left |-> DaysLeft(parsed.text, today)],
                   verify |-> 1, enddate |-> 1, raised |-> FALSE]

\* A slip in the loop body: the verifier is asked without looking for the
\* certificate file first, and rejects a file that is not there.
CheckServiceNoFileTest(service, d, v, today) ==
    IF CertFile(service) \notin d
    THEN VerifyCertificate([v EXCEPT !.verify = VerifyRejected], today)
    ELSE VerifyCertificate(v, today)

\* One iteration of the loop over self.services, the CA certificate present.
CheckService(service, d, v, today) ==
    IF CertFile(service) \notin d
    THEN [entry |-> [valid |-> FALSE, reason |-> "Certificate file not found"],
          verify |-> 0, enddate |-> 0, raised |-> FALSE]
    ELSE VerifyCertificate(v, today)

\* The loop without its try/except: the first exception ends it.
RECURSIVE ValidityLoopNoCatch(_, _, _, _, _)
ValidityLoopNoCatch(i, acc, d, v, today) ==
    IF i > Len(ServiceOrder) THEN acc
    ELSE LET s == ServiceOrder[i]
             c == CheckService(s, d, v[s], today)
             a == [results |-> IF c.raised THEN acc.results
                               ELSE acc.results @@ (s :> c.entry),
                   verify |-> [acc.verify EXCEPT ![s] = @ + c.verify],
                   enddate |-> [acc.enddate EXCEPT ![s] = @ + c.enddate]]
         IN  IF c.raised THEN a ELSE ValidityLoopNoCatch(i + 1, a, d, v, today)

\* The loop from its i-th service on; acc holds results and the invocation counts.
RECURSIVE ValidityLoop(_, _, _, _, _)
ValidityLoop(i, acc, d, v, today) ==
    IF i > Len(ServiceOrder) THEN acc
    ELSE LET s == ServiceOrder[i]
             c == CheckService(s, d, v[s], today)
         IN  ValidityLoop(i + 1,
                          [results |-> acc.results @@ (s :> c.entry),
                           verify |-> [acc.verify EXCEPT ![s] = @ + c.verify],
                           enddate |-> [acc.enddate EXCEPT ![s] = @ + c.enddate]],
                          d, v, today)

\* The method without its early return.
CheckCertificateValidityNoCaTest(d, v, today) ==
    ValidityLoop(1, [results |-> <<>>, verify |-> Fresh.counts, enddate |-> Fresh.counts],
                 d, v, today)

\* The whole method: empty results when the CA certificate is missing.
CheckCertificateValidityResult(d, v, today) ==
    IF CaCert \notin d
    THEN [results |-> <<>>, verify |-> Fresh.counts, enddate |-> Fresh.counts]
    ELSE ValidityLoop(1, [results |-> <<>>, verify |-> Fresh.counts, enddate |-> Fresh.counts],
                      d, v, today)

\* The paths the method stats.
ValidityStats(d) ==
    {CaCert} \cup (IF CaCert \in d THEN {CertFile(s) : s \in Services} ELSE {})

(***************************************************************************)
(* test_ssl_connectivity                                                   *)
(***************************************************************************)

\* One iteration: the result stored and the line printed.
ProbeService(outcome) ==
    CASE outcome = "ok" -> [result |-> TRUE, log |-> "successful", attempts |-> 1]
      [] outcome = "timeout" -> [result |-> FALSE, log |-> "timeout", attempts |-> 1]
      [] outcome = "refused" -> [result |-> FALSE, log |-> "refused", attempts |-> 1]
      [] OTHER -> [result |-> FALSE, log |-> "failed", attempts |-> 1]

\* The loop without its last except clause: an exception that is neither a
\* timeout nor a refusal ends it.
RECURSIVE ConnectivityLoopNoCatchAll(_, _, _)
ConnectivityLoopNoCatchAll(i, acc, n) ==
    IF i > Len(ServiceOrder) \/ n[ServiceOrder[i]] = "other" THEN acc
    ELSE LET s == ServiceOrder[i]
             p == ProbeService(n[s])
         IN  ConnectivityLoopNoCatchAll(i + 1,
                              [results |-> acc.results @@ (s :> p.result),
                               log |-> acc.log @@ (s :> p.log),
                               attempts |-> [acc.attempts EXCEPT ![s] = @ + p.attempts]],
                              n)

RECURSIVE ConnectivityLoop(_, _, _)
ConnectivityLoop(i, acc, n) ==
    IF i > Len(ServiceOrder) THEN acc
    ELSE LET s == ServiceOrder[i]
             p == ProbeService(n[s])
         IN  ConnectivityLoop(i + 1,
                              [results |-> acc.results @@ (s :> p.result),
                               log |-> acc.log @@ (s :> p.log),
                               attempts |-> [acc.attempts EXCEPT ![s] = @ + p.attempts]],
                              n)

TestSslConnectivityResult(n) ==
    ConnectivityLoop(1, [results |-> <<>>, log |-> <<>>, attempts |-> Fresh.counts], n)

(***************************************************************************)
(* generate_report                                                         *)
(***************************************************************************)

\* sum(1 for v in results.values() if v)
CountTrue(results) == Cardinality({k \in DOMAIN results : results[k]})

\* A slip in the count: a certificate about to expire is not counted.
CountValidNotExpiring(validity) ==
    Cardinality({k \in DOMAIN validity :
        /\ Get(validity[k], "valid", FALSE)
        /\ ("days_left" \in DOMAIN validity[k] => validity[k].days_left >= 30)})

\* sum(1 for v in validity_results.values() if v.get('valid', False))
CountValid(validity) ==
    Cardinality({k \in DOMAIN validity : Get(validity[k], "valid", FALSE)})

Summary(files, validity, connectivity) ==
    [total_services |-> Cardinality(Services),
     files_ok |-> CountTrue(files),
     certs_valid |-> CountValid(validity),
     connections_ok |-> CountTrue(connectivity)]

\* isinstance(validity.get('days_left'), int): the only value ever stored
\* under 'days_left' is a timedelta's .days; the default is not an int.
HasIntDaysLeft(validity) == "days_left" \in DOMAIN validity

\* A slip in the first threshold: <= for <.
BandInclusive(days_left) ==
    IF days_left <= 30 THEN "urgent"
    ELSE IF days_left < 90 THEN "warning"
    ELSE "healthy"

\* The colour of a known days_left.
Band(days_left) ==
    IF days_left < 30 THEN "urgent"
    ELSE IF days_left < 90 THEN "warning"
    ELSE "healthy"

\* The 'Validity:' line of one service's block.
ValidityLine(validity) ==
    IF Get(validity, "valid", FALSE)
    THEN IF HasIntDaysLeft(validity) THEN Band(validity.days_left) ELSE "plain"
    ELSE "invalid"

\* The per-service block, for each service of self.services.
Details(files, validity, connectivity) ==
    [s \in Services |->
        [files |-> Get(files, s, FALSE),
         validity |-> ValidityLine(Get(validity, s, <<>>)),
         connection |-> Get(connectivity, s, FALSE)]]

\* The three general recommendation lines.
Recommendations(summary) ==
    (IF summary.files_ok < summary.total_services + 1 THEN {"generate"} ELSE {}) \cup
    (IF summary.certs_valid < summary.total_services THEN {"invalid"} ELSE {}) \cup
    (IF summary.connections_ok < summary.total_services THEN {"unreachable"} ELSE {})

\* Whether the 'expires in N days - renew soon!' line is printed for an entry.
ExpiresSoon(validity) ==
    Get(validity, "valid", FALSE) /\ HasIntDaysLeft(validity) /\ validity.days_left < 30

\* The services the 'renew soon' line is printed for, in validity_results' order.
RenewSoon(validity) ==
    SelectSeq(ServiceOrder, LAMBDA s : s \in DOMAIN validity /\ ExpiresSoon(validity[s]))

GenerateReport(files, validity, connectivity) ==
    LET summary == Summary(files, validity, connectivity)
    IN  [summary |-> summary,
         details |-> Details(files, validity, connectivity),
         recommendations |-> Recommendations(summary),
         renew_soon |-> RenewSoon(validity)]

(***************************************************************************)
(* main                                                                    *)
(***************************************************************************)

\* all(file_results.values()) and all(v.get('valid', False) for v in ...)
AllPassed(files, validity) ==
    /\ \A k \in DOMAIN files : files[k]
    /\ \A k \in DOMAIN validity : Get(validity[k], "valid", FALSE)

\* A slip in the exit test: a failed connection fails the run too.
ExitStatusWithConnectivity(files, validity, connectivity) ==
    IF AllPassed(files, validity) /\ (\A k \in DOMAIN connectivity : connectivity[k])
    THEN 0 ELSE 1

ExitStatus(files, validity, connectivity) ==
    IF AllPassed(files, validity) THEN 0 ELSE 1

Init ==
    /\ \/ \E missing \in MissingFileChoices :
            \E v \in VerifierChoices(MaxDeviations - Cardinality(missing)) :
              \E n \in NetworkChoices(MaxDeviations - Cardinality(missing)
                                       - NumDeviating(v, NominalVerifier)) :
                /\ rootExists = TRUE
                /\ disk = AssetFiles \ missing
                /\ verifier = v
                /\ network = n
       \/ \E n \in NetworkChoices(MaxDeviations) :
            /\ rootExists = FALSE
            /\ disk = {}
            /\ verifier = [s \in Services |-> NominalVerifier]
            /\ network = n
    /\ now = 0
    /\ run = 1
    /\ prev = <<>>
    /\ pc = Fresh.pc
    /\ file_results = Fresh.results
    /\ validity_results = Fresh.results
    /\ connectivity_results = Fresh.results
    /\ conn_log = Fresh.results
    /\ report = Fresh.report
    /\ exitCode = Fresh.exitCode
    /\ calls = Fresh.calls
    /\ statted = Fresh.statted
    /\ verifyCalls = Fresh.counts
    /\ enddateCalls = Fresh.counts
    /\ probes = Fresh.counts

\* A slip in the directory test: the messages are printed, the run goes on.
CheckSslDirNoExit ==
    /\ pc = "start"
    /\ pc' = "dir_ok"
    /\ UNCHANGED <<env, now, run, prev, file_results, validity_results,
                   connectivity_results, conn_log, report, exitCode, calls,
                   statted, verifyCalls, enddateCalls, probes>>

\* if not validator.ssl_dir.exists(): ... sys.exit(1)
CheckSslDir ==
    /\ pc = "start"
    /\ IF rootExists
       THEN pc' = "dir_ok" /\ exitCode' = exitCode
       ELSE pc' = "exited" /\ exitCode' = 1
    /\ UNCHANGED <<env, now, run, prev, file_results, validity_results,
                   connectivity_results, conn_log, report, calls, statted,
                   verifyCalls, enddateCalls, probes>>

ValidateCertificateFiles ==
    /\ pc = "dir_ok"
    /\ pc' = "files_checked"
    /\ calls' = Append(calls, "validate_certificate_files")
    /\ file_results' = FileResults(disk)
    /\ statted' = statted \cup FileCheckStats(disk)
    /\ UNCHANGED <<env, now, run, prev, validity_results, connectivity_results,
                   conn_log, report, exitCode, verifyCalls, enddateCalls, probes>>

CheckCertificateValidity ==
    /\ pc = "files_checked"
    /\ pc' = "validity_checked"
    /\ calls' = Append(calls, "check_certificate_validity")
    /\ LET r == CheckCertificateValidityResult(disk, verifier, now)
       IN  /\ validity_results' = r.results
           /\ verifyCalls' = [s \in Services |-> verifyCalls[s] + r.verify[s]]
           /\ enddateCalls' = [s \in Services |-> enddateCalls[s] + r.enddate[s]]
    /\ statted' = statted \cup ValidityStats(disk)
    /\ UNCHANGED <<env, now, run, prev, file_results, connectivity_results,
                   conn_log, report, exitCode, probes>>

TestSslConnectivity ==
    /\ pc = "validity_checked"
    /\ pc' = "connectivity_checked"
    /\ calls' = Append(calls, "test_ssl_connectivity")
    /\ LET r == TestSslConnectivityResult(network)
       IN  /\ connectivity_results' = r.results
           /\ conn_log' = r.log
           /\ probes' = [s \in Services |-> probes[s] + r.attempts[s]]
    /\ UNCHANGED <<env, now, run, prev, file_results, validity_results, report,
                   exitCode, statted, verifyCalls, enddateCalls>>

Report ==
    /\ pc = "connectivity_checked"
    /\ pc' = "reported"
    /\ calls' = Append(calls, "generate_report")
    /\ report' = <<GenerateReport(file_results, validity_results, connectivity_results)>>
    /\ UNCHANGED <<env, now, run, prev, file_results, validity_results,
                   connectivity_results, conn_log, exitCode, statted,
                   verifyCalls, enddateCalls, probes>>

Exit ==
    /\ pc = "reported"
    /\ pc' = "exited"
    /\ exitCode' = ExitStatus(file_results, validity_results, connectivity_results)
    /\ UNCHANGED <<env, now, run, prev, file_results, validity_results,
                   connectivity_results, conn_log, report, calls, statted,
                   verifyCalls, enddateCalls, probes>>

\* The summary counts an invocation printed (none when it printed no report).
Outcome == [summary |-> [i \in DOMAIN report |-> report[i].summary],
            exitCode |-> exitCode]

\* The tool is run a second time against the same assets.
RunAgain ==
    /\ pc = "exited"
    /\ run = 1
    /\ run' = 2
    /\ prev' = <<Outcome>>
    /\ \E skew \in ClockSkews : now' = now + skew
    /\ pc' = Fresh.pc
    /\ file_results' = Fresh.results
    /\ validity_results' = Fresh.results
    /\ connectivity_results' = Fresh.results
    /\ conn_log' = Fresh.results
    /\ report' = Fresh.report
    /\ exitCode' = Fresh.exitCode
    /\ calls' = Fresh.calls
    /\ statted' = Fresh.statted
    /\ verifyCalls' = Fresh.counts
    /\ enddateCalls' = Fresh.counts
    /\ probes' = Fresh.counts
    /\ UNCHANGED env

Next ==
    \/ CheckSslDir
    \/ ValidateCertificateFiles
    \/ CheckCertificateValidity
    \/ TestSslConnectivity
    \/ Report
    \/ Exit
    \/ RunAgain

Spec == Init /\ [][Next]_vars

(***************************************************************************)
(* Properties                                                              *)
(***************************************************************************)

AfterValidity ==
    rootExists /\ pc \in {"validity_checked", "connectivity_checked", "reported", "exited"}

AfterConnectivity ==
    rootExists /\ pc \in {"connectivity_checked", "reported", "exited"}

AfterReport == rootExists /\ pc \in {"reported", "exited"}

\* The verifier accepts the certificate of service s and its expiry can be read.
VerifierPasses(s) ==
    /\ verifier[s].verify = VerifyOk
    /\ ~verifier[s].enddate.raised
    /\ \/ verifier[s].enddate.returncode # 0
       \/ /\ Len(verifier[s].enddate.stdout) >= 2
          /\ verifier[s].enddate.stdout[2].parseable

\* Disk and verifier, and nothing else, are in order.
EnvironmentPasses == disk = AssetFiles /\ \A s \in Services : VerifierPasses(s)

\* C1: a run with the root directory present exits 0 exactly when every entry
\* of the file-presence result (the CA and the five services) is true and every
\* validity entry is valid, and exits 1 otherwise; the status is decided by the
\* disk and the verifier alone, whatever the connectivity results are.
ExitStatusContract ==
    (pc = "exited" /\ rootExists) =>
        /\ exitCode \in {0, 1}
        /\ DOMAIN file_results = {"ca"} \cup Services
        /\ (exitCode = 0) <=>
               /\ \A k \in DOMAIN file_results : file_results[k]
               /\ \A s \in DOMAIN validity_results : validity_results[s].valid
        /\ (exitCode = 0) <=> EnvironmentPasses

\* A run that exits 0 although a connection failed.
ExitZeroDespiteConnectionFailure ==
    /\ pc = "exited" /\ rootExists /\ exitCode = 0
    /\ \E s \in Services : ~connectivity_results[s]

\* C2: against a root directory that does not exist the process exits with
\* status 1 and no validator method is started: no asset is statted, the
\* verifier is not invoked, no connection is attempted, no report is printed.
MissingRootExitsAtOnce ==
    ~rootExists =>
        /\ pc \in {"start", "exited"}
        /\ pc = "exited" => exitCode = 1
        /\ calls = <<>>
        /\ statted = {}
        /\ report = <<>>
        /\ \A s \in Services :
               verifyCalls[s] = 0 /\ enddateCalls[s] = 0 /\ probes[s] = 0

MissingRootExited == ~rootExists /\ pc = "exited"

\* C3 as stated: after check_certificate_validity, every service whose
\* certificate file is absent has the entry Invalid 'file not found', and the
\* verifier was invoked for it neither to verify nor to read the expiry.
MissingCertIsInvalid ==
    AfterValidity =>
        \A s \in Services :
            CertFile(s) \notin disk =>
                /\ s \in DOMAIN validity_results
                /\ validity_results[s] =
                       [valid |-> FALSE, reason |-> "Certificate file not found"]
                /\ verifyCalls[s] = 0
                /\ enddateCalls[s] = 0

\* C3 amended: the entry is there provided the CA certificate exists; without
\* the CA certificate the result has no entry at all.  The verifier is not
\* invoked for the service in either case.
MissingCertIsInvalidGivenCa ==
    AfterValidity =>
        \A s \in Services :
            CertFile(s) \notin disk =>
                /\ CaCert \in disk =>
                       /\ s \in DOMAIN validity_results
                       /\ validity_results[s] =
                              [valid |-> FALSE, reason |-> "Certificate file not found"]
                /\ CaCert \notin disk => s \notin DOMAIN validity_results
                /\ verifyCalls[s] = 0
                /\ enddateCalls[s] = 0

MissingCertChecked ==
    AfterValidity /\ CaCert \in disk /\ \E s \in Services : CertFile(s) \notin disk

\* C4 as stated: in a run that reaches the report, the service names used as
\* keys are the same in the three results: each has an entry for exactly the
\* five configured services.
SameServiceKeys ==
    AfterReport =>
        /\ DOMAIN file_results \cap Services = Services
        /\ DOMAIN validity_results = Services
        /\ DOMAIN connectivity_results = Services

\* C4 amended: the file-presence result has the keys 'ca' and the five
\* services, the connectivity result the five services; the validity result
\* has the five services when the CA certificate exists and is empty when it
\* does not.
ServiceKeysGivenCa ==
    AfterReport =>
        /\ DOMAIN file_results = {"ca"} \cup Services
        /\ DOMAIN connectivity_results = Services
        /\ DOMAIN validity_results = IF CaCert \in disk THEN Services ELSE {}

ReportedWithoutCa == AfterReport /\ CaCert \notin disk /\ pc = "reported"

\* Verification of service s succeeded and its expiry could not be obtained:
\* the inspection command failed, or its output is no parseable date.
ExpiryUnobtainable(s) ==
    /\ CaCert \in disk /\ CertFile(s) \in disk
    /\ verifier[s].verify = VerifyOk
    /\ ~verifier[s].enddate.raised
    /\ \/ verifier[s].enddate.returncode # 0
       \/ ParseEnddate(verifier[s].enddate.stdout).raised

\* C5: a certificate that passed chain verification and whose expiry cannot
\* be obtained is still Valid, with expires = "Unknown" and no daysLeft.
ExpiryFailureStillValid ==
    AfterValidity =>
        \A s \in Services :
            ExpiryUnobtainable(s) =>
                /\ s \in DOMAIN validity_results
                /\ validity_results[s].valid
                /\ DOMAIN validity_results[s] = {"valid", "expires"}
                /\ validity_results[s].expires = "Unknown"

\* C6: with root directory and CA certificate present, whatever happens to
\* one service, every service has its validity entry and its connectivity
\* entry and was probed exactly once; a service with nothing wrong of its own
\* is reported valid and connected.
PerServiceIsolation ==
    (AfterConnectivity /\ CaCert \in disk) =>
        /\ DOMAIN validity_results = Services
        /\ DOMAIN connectivity_results = Services
        /\ \A s \in Services :
            /\ probes[s] = 1
            /\ (CertFile(s) \in disk /\ verifier[s] = NominalVerifier) =>
                   /\ validity_results[s].valid
                   /\ "days_left" \in DOMAIN validity_results[s]
            /\ network[s] = "ok" => connectivity_results[s]

\* An exception in one service's validity check and another in a probe.
TwoServicesFailed ==
    /\ AfterConnectivity /\ CaCert \in disk
    /\ \E s \in Services : CertFile(s) \in disk /\ verifier[s].verify = SpawnError
    /\ \E s \in Services : network[s] = "other"

\* C7: with the root directory present and the CA certificate absent,
\* check_certificate_validity returns an empty result without invoking the
\* verifier, and the run goes on: every service is probed, then the report is
\* printed, then the process exits.
MissingCaDoesNotAbort ==
    (rootExists /\ CaCert \notin disk) =>
        /\ AfterValidity =>
               /\ DOMAIN validity_results = {}
               /\ \A s \in Services : verifyCalls[s] = 0 /\ enddateCalls[s] = 0
        /\ pc = "exited" =>
               /\ calls = <<"validate_certificate_files", "check_certificate_validity",
                            "test_ssl_connectivity", "generate_report">>
               /\ \A s \in Services : probes[s] = 1
               /\ Len(report) = 1

MissingCaExited == rootExists /\ CaCert \notin disk /\ pc = "exited"

\* C8: the second of two successive runs against the unchanged asset set
\* prints the same summary counts and exits with the same status as the first.
Idempotent ==
    (run = 2 /\ pc = "exited") => prev = <<Outcome>>

\* A second run, a day later, of a tool that found something wrong.
SecondRunExited ==
    /\ run = 2 /\ pc = "exited" /\ rootExists /\ now = 1 /\ exitCode = 1
    /\ \E s \in Services : "days_left" \in DOMAIN validity_results[s]

\* C9: a service reported Valid with a known daysLeft is rendered urgent
\* below 30 days, warning from 30 to 89 and healthy from 90 on, and the 'renew
\* soon' line is printed for exactly the services rendered urgent.
UrgencyBands ==
    AfterReport =>
        /\ \A s \in DOMAIN validity_results :
               LET v == validity_results[s]
                   shown == report[1].details[s].validity
               IN  (v.valid /\ "days_left" \in DOMAIN v) =>
                       /\ v.days_left < 30 => shown = "urgent"
                       /\ (30 <= v.days_left /\ v.days_left < 90) => shown = "warning"
                       /\ v.days_left >= 90 => shown = "healthy"
        /\ {report[1].renew_soon[i] : i \in DOMAIN report[1].renew_soon} =
               {s \in Services : report[1].details[s].validity = "urgent"}

\* A report with an urgent (10 days) and a healthy (200 days) certificate.
UrgentAndHealthyReported ==
    /\ AfterReport /\ CaCert \in disk
    /\ \E s, u \in Services :
        /\ "days_left" \in DOMAIN validity_results[s]
        /\ validity_results[s].days_left = 10
        /\ report[1].details[s].validity = "urgent"
        /\ "days_left" \in DOMAIN validity_results[u]
        /\ validity_results[u].days_left = 200
        /\ report[1].details[u].validity = "healthy"

\* C10: a run that exits 0 has a validity entry for each of the five services,
\* every one of them Valid; the empty result of a missing CA certificate never
\* leads to exit 0.
ExitZeroNeedsFullValidity ==
    (pc = "exited" /\ exitCode = 0) =>
        /\ CaCert \in disk
        /\ DOMAIN validity_results = Services
        /\ \A s \in Services : validity_results[s].valid

ExitedZero == pc = "exited" /\ exitCode = 0 /\ run = 1
====
